---- MODULE Spec2Model ----
(***************************************************************************)
(* A model of src/app.py: the placeholder substitution engine              *)
(* (PlaceholderHandler, replace_text_in_paragraph), the document walker    *)
(* (process_document), the filename synthesizer (generate_output_filename) *)
(* and the Streamlit script's batch loop and session state.                *)
(*                                                                         *)
(* Text is a sequence of one-character strings.  A dict is a sequence of   *)
(* <<key, value>> pairs with distinct keys, in its iteration order.        *)
(***************************************************************************)
EXTENDS Integers, Sequences, FiniteSets, TLC

VARIABLES
    \* ---- replace_text_in_paragraph, called on one paragraph ----
    p_pc,          \* "none" | "call" | "returned" | "raised"
    p_runs0,       \* the paragraph's runs (their text) when called
    p_runs,        \* the paragraph's runs now
    p_repl,        \* the replacements dict of the call
    \* ---- generate_output_filename, called on one row ----
    n_pc,          \* "none" | "call" | "returned" | "raised"
    n_row,         \* the row dict of the call
    n_template,    \* the filename template of the call
    n_now,         \* the second at which the call reads the clock
    n_name,        \* the filename returned
    \* ---- the session (st.session_state) ----
    processing_stage,
    output_dir,
    generated_files,
    ss_filename_template,
    \* ---- the script run that generates, and its locals ----
    pc,            \* "idle" | "loop" (the for statement) | "walk" (process_document)
    df,            \* the rows read from the Excel file
    template_doc,  \* the uploaded template document
    filename_template,
    index,         \* how many rows the loop has begun
    success_count,
    local_files,   \* the local list generated_files
    output_filename,
    doc,           \* process_document's document, in the order of the walk
    pos,           \* the next block of doc
    \* ---- the environment ----
    disk,          \* the files of the output directories the session or
                   \* the running script refers to: path and content
    now,           \* the clock: the seconds since the running batch
                   \* synthesized its first filename
    \* ---- what the user is shown ----
    offered,       \* the files the download area lists
    summary,       \* <<success, total, failed>> of the last end-of-batch messages
    \* ---- history, for the properties ----
    log,           \* per row of the running batch that process_document has
                   \* returned for: its index, filename and the result
    last_begun,    \* of the last batch: the rows process_document returned for,
    last_failed,   \* those it returned False for,
    last_ok,       \* and the filenames of those it returned True for
    last_run,      \* "none" | "running" | "completed" | "aborted" | "reset"
    aborted_at,    \* the row in which the last batch aborted, 0 for none
    batch_total,   \* the number of rows of the last batch
    visited,       \* the places of the blocks the current walk has processed
    disk_before,   \* disk when the current process_document call began
    pd_ret         \* "none" | "true" | "false" | "false_block": the call's return

p_vars == <<p_pc, p_runs0, p_runs, p_repl>>
n_vars == <<n_pc, n_row, n_template, n_now, n_name>>
session == <<processing_stage, output_dir, generated_files, ss_filename_template>>
locals == <<df, template_doc, filename_template, index, success_count, local_files,
            output_filename, doc, pos>>
history == <<log, last_begun, last_failed, last_ok, last_run, aborted_at,
             batch_total, visited, disk_before, pd_ret>>
b_vars == <<session, pc, locals, disk, now, offered, summary, history>>
vars == <<p_vars, n_vars, b_vars>>

\* ------------------------------------------------------------------ text

BS == "\\"

Max(S) == CHOOSE x \in S : \A y \in S : y <= x

RECURSIVE Concat(_)
\* ''.join(parts)
Concat(parts) ==
    IF parts = <<>> THEN <<>> ELSE Head(parts) \o Concat(Tail(parts))

\* The characters Python's \s matches, among those of the model.
IsSpace(c) == c \in {" ", "\t", "\n"}

\* text[i..] starts with the literal lit.
HasAt(text, i, lit) ==
    /\ i + Len(lit) - 1 <= Len(text)
    /\ \A j \in 1..Len(lit) : text[i + j - 1] = lit[j]

RECURSIVE SpaceRun(_, _)
\* How many whitespace characters follow each other from text[i] on.
SpaceRun(text, i) ==
    IF i <= Len(text) /\ IsSpace(text[i]) THEN 1 + SpaceRun(text, i + 1) ELSE 0

\* ------------------------------------------------- PlaceholderHandler

\* The four syntaxes, in the order of the list: each pattern is
\* open \s* (.*?) \s* close.
PLACEHOLDER_PATTERNS ==
    << [open |-> <<"{", "{">>, close |-> <<"}", "}">>],
       [open |-> <<"$", "{">>, close |-> <<"}">>],
       [open |-> <<"{">>,      close |-> <<"}">>],
       [open |-> <<"[", "[">>, close |-> <<"]", "]">>] >>

\* A mutant of MatchEnd: the wrapped pattern is not closed after the key
\* (open \s* key), so a key matches inside a longer name.
MatchEndUnclosed(text, i, pat, key) ==
    IF ~HasAt(text, i, pat.open) THEN 0
    ELSE LET s  == i + Len(pat.open)
             ms == { m \in 0..SpaceRun(text, s) : HasAt(text, s + m, key) }
         IN  IF ms = {} THEN 0 ELSE s + Max(ms) + Len(key)

\* pattern.replace(r'(.*?)', re.escape(key)) matched at text[i]: the index
\* after the match, 0 when there is none.  \s* is greedy and backtracks.
MatchEnd(text, i, pat, key) ==
    IF ~HasAt(text, i, pat.open) THEN 0
    ELSE LET s  == i + Len(pat.open)
             ns(e) == { n \in 0..SpaceRun(text, e) : HasAt(text, e + n, pat.close) }
             ms == { m \in 0..SpaceRun(text, s) :
                        HasAt(text, s + m, key) /\ ns(s + m + Len(key)) # {} }
         IN  IF ms = {} THEN 0
             ELSE LET e == s + Max(ms) + Len(key)
                  IN  e + Max(ns(e)) + Len(pat.close)

\* re.search(wrapped, text)
re_search(pat, key, text) ==
    \E i \in 1..Len(text) : MatchEnd(text, i, pat, key) # 0

Min(S) == CHOOSE x \in S : \A y \in S : x <= y

RECURSIVE SubFrom(_, _, _, _, _)
\* The leftmost non-overlapping matches from text[i] on, replaced by new.
SubFrom(text, i, pat, key, new) ==
    LET starts == { j \in i..Len(text) : MatchEnd(text, j, pat, key) # 0 }
    IN  IF starts = {} THEN SubSeq(text, i, Len(text))
        ELSE LET j == Min(starts)
             IN  SubSeq(text, i, j - 1) \o new
                     \o SubFrom(text, MatchEnd(text, j, pat, key), pat, key, new)

\* The characters after a backslash in a replacement template, among those
\* of the model: a digit 1-9 is a group reference, an ASCII letter that is
\* no escape is a bad escape, "n" is the newline, a backslash is itself.
GroupDigits == {"1", "7"}
BadEscapeLetters == {"X", "Y", "d"}

RECURSIVE ExpandTemplate(_)
\* The replacement template of re.sub, compiled before any match is looked
\* for: [ok |-> FALSE] when compiling raises re.error (the wrapped pattern
\* has no group), else the text that replaces a match.
ExpandTemplate(value) ==
    IF value = <<>> THEN [ok |-> TRUE, text |-> <<>>]
    ELSE IF Head(value) # BS
    THEN LET rest == ExpandTemplate(Tail(value))
         IN  [ok |-> rest.ok, text |-> <<Head(value)>> \o rest.text]
    ELSE IF Len(value) = 1 THEN [ok |-> FALSE, text |-> <<>>]
    ELSE LET c    == value[2]
             rest == ExpandTemplate(Tail(Tail(value)))
         IN  IF c \in GroupDigits \cup BadEscapeLetters
             THEN [ok |-> FALSE, text |-> <<>>]
             ELSE [ok |-> rest.ok,
                   text |-> (IF c = BS THEN <<BS>>
                             ELSE IF c = "n" THEN <<"\n">>
                             ELSE <<BS, c>>) \o rest.text]

\* re.sub(wrapped, str(value), text)
re_sub(pat, key, value, text) ==
    LET t == ExpandTemplate(value)
    IN  IF t.ok THEN [ok |-> TRUE, text |-> SubFrom(text, 1, pat, key, t.text)]
        ELSE [ok |-> FALSE, text |-> text]

\* ------------------------------------------------------------- dicts

Keys(d) == [i \in 1..Len(d) |-> d[i][1]]

\* replacements.get(key, '')
Get(d, key) ==
    IF \E i \in 1..Len(d) : d[i][1] = key
    THEN d[CHOOSE i \in 1..Len(d) : d[i][1] = key][2]
    ELSE <<>>

\* ------------------------------------------- replace_text_in_paragraph

\* The keys of replacements, in the dict's order, that re.search finds in
\* text wrapped in one of the four syntaxes.
all_placeholders(text, replacements) ==
    SelectSeq(Keys(replacements),
              LAMBDA key : \E p \in 1..Len(PLACEHOLDER_PATTERNS) :
                               re_search(PLACEHOLDER_PATTERNS[p], key, text))

RECURSIVE SubPatterns(_, _, _, _)
\* The inner loop: re.sub of one placeholder under pattern p and the ones
\* after it; the first re.sub that raises ends it.
SubPatterns(full_text, p, placeholder, value) ==
    IF p > Len(PLACEHOLDER_PATTERNS) THEN [ok |-> TRUE, text |-> full_text]
    ELSE LET r == re_sub(PLACEHOLDER_PATTERNS[p], placeholder, value, full_text)
         IN  IF r.ok THEN SubPatterns(r.text, p + 1, placeholder, value) ELSE r

RECURSIVE SubPlaceholders(_, _, _)
\* The outer loop, over all_placeholders in their order.
SubPlaceholders(full_text, placeholders, replacements) ==
    IF placeholders = <<>> THEN [ok |-> TRUE, text |-> full_text]
    ELSE LET r == SubPatterns(full_text, 1, Head(placeholders),
                              Get(replacements, Head(placeholders)))
         IN  IF r.ok THEN SubPlaceholders(r.text, Tail(placeholders), replacements)
             ELSE r

\* A mutant of WriteRuns: the emptied runs are removed.
WriteRunsDeleting(runs, full_text) == <<full_text>>

\* The runs after the rewrite: every run emptied, the first one given the
\* text; a paragraph without runs gets one.
WriteRuns(runs, full_text) ==
    IF runs = <<>> THEN <<full_text>>
    ELSE [i \in 1..Len(runs) |-> IF i = 1 THEN full_text ELSE <<>>]

\* A mutant of replace_text_in_paragraph: no early return.
replace_text_always(runs, replacements) ==
    LET r == SubPlaceholders(Concat(runs),
                             all_placeholders(Concat(runs), replacements),
                             replacements)
    IN  IF r.ok THEN [raised |-> FALSE, runs |-> WriteRuns(runs, r.text)]
        ELSE [raised |-> TRUE, runs |-> runs]

\* replace_text_in_paragraph(paragraph, replacements): the paragraph's runs
\* afterwards, and whether the call raised (it then changed nothing).
\* paragraph.text is the text of the runs joined.
replace_text_in_paragraph(runs, replacements) ==
    LET found == all_placeholders(Concat(runs), replacements)
    IN  IF found = <<>> THEN [raised |-> FALSE, runs |-> runs]
        ELSE LET r == SubPlaceholders(Concat(runs), found, replacements)
             IN  IF r.ok THEN [raised |-> FALSE, runs |-> WriteRuns(runs, r.text)]
                 ELSE [raised |-> TRUE, runs |-> runs]

\* -------------------------------------------- generate_output_filename

RECURSIVE NamePatterns(_, _, _, _)
\* The inner loop of the filename: re.sub under pattern p and the ones
\* after it, each only where re.search finds the key.
NamePatterns(filename, p, key, value) ==
    IF p > Len(PLACEHOLDER_PATTERNS) THEN [ok |-> TRUE, text |-> filename]
    ELSE IF ~re_search(PLACEHOLDER_PATTERNS[p], key, filename)
    THEN NamePatterns(filename, p + 1, key, value)
    ELSE LET r == re_sub(PLACEHOLDER_PATTERNS[p], key, value, filename)
         IN  IF r.ok THEN NamePatterns(r.text, p + 1, key, value) ELSE r

RECURSIVE NameItems(_, _)
\* The outer loop, over row.items().
NameItems(filename, items) ==
    IF items = <<>> THEN [ok |-> TRUE, text |-> filename]
    ELSE LET r == NamePatterns(filename, 1, Head(items)[1], Head(items)[2])
         IN  IF r.ok THEN NameItems(r.text, Tail(items)) ELSE r

DigitChars == <<"0", "1", "2", "3", "4", "5", "6", "7", "8", "9">>

\* strftime("%Y%m%d%H%M%S") of the clock.  The model counts the seconds
\* of one minute, 2026-11-06 08:00: the digits of the seconds are those of
\* the count.
strftime(secs) ==
    <<"2", "0", "2", "6", "1", "1", "0", "6", "0", "8", "0", "0">>
        \o <<DigitChars[(secs \div 10) + 1], DigitChars[(secs % 10) + 1]>>

\* The characters of the class [\\/*?:"<>|].
IllegalChars == {BS, "/", "*", "?", ":", "\"", "<", ">", "|"}

\* re.sub(r'[\\/*?:"<>|]', "", filename)
RemoveIllegal(filename) == SelectSeq(filename, LAMBDA c : c \notin IllegalChars)

RECURSIVE LStrip(_)
LStrip(text) ==
    IF text # <<>> /\ IsSpace(Head(text)) THEN LStrip(Tail(text)) ELSE text

RECURSIVE RStrip(_)
RStrip(text) ==
    IF text # <<>> /\ IsSpace(text[Len(text)])
    THEN RStrip(SubSeq(text, 1, Len(text) - 1)) ELSE text

\* str.strip()
Strip(text) == RStrip(LStrip(text))

MaxNameLen == 100

Extension == <<".", "d", "o", "c", "x">>

\* filename[:n]
Truncate(filename, n) ==
    SubSeq(filename, 1, IF Len(filename) < n THEN Len(filename) ELSE n)

\* A mutant of generate_output_filename: the extension is appended before
\* the name is cut.
generate_output_filename_cut_last(row, name_template, secs) ==
    LET r == NameItems(name_template, row)
    IN  IF ~r.ok THEN [raised |-> TRUE, name |-> <<>>]
        ELSE [raised |-> FALSE,
              name |-> Truncate(
                  Strip(RemoveIllegal(r.text \o <<"_">> \o strftime(secs)))
                      \o Extension, MaxNameLen)]

\* generate_output_filename(row, filename_template), called at second secs:
\* the filename, or raised when a re.sub raises.
generate_output_filename(row, name_template, secs) ==
    LET r == NameItems(name_template, row)
    IN  IF ~r.ok THEN [raised |-> TRUE, name |-> <<>>]
        ELSE [raised |-> FALSE,
              name |-> Truncate(
                  Strip(RemoveIllegal(r.text \o <<"_">> \o strftime(secs))),
                  MaxNameLen) \o Extension]

\* ------------------------------------------------- process_document

RECURSIVE Flatten(_)
Flatten(seqs) == IF seqs = <<>> THEN <<>> ELSE Head(seqs) \o Flatten(Tail(seqs))

Block(region, sec, runs) == [region |-> region, sec |-> sec, runs |-> runs]

\* for table in doc.tables: for row in table.rows: for cell in row.cells:
\* for paragraph in cell.paragraphs
TableBlocks(tables) ==
    LET cellBlocks(cell) == [i \in 1..Len(cell) |-> Block("table", 0, cell[i])]
        rowBlocks(row) == Flatten([i \in 1..Len(row) |-> cellBlocks(row[i])])
        tableBlocks(t) == Flatten([i \in 1..Len(t) |-> rowBlocks(t[i])])
    IN  Flatten([i \in 1..Len(tables) |-> tableBlocks(tables[i])])

\* for section in doc.sections: the header's paragraphs, then the footer's
SectionBlocks(sections) ==
    Flatten([s \in 1..Len(sections) |->
        [i \in 1..Len(sections[s].header) |->
             Block("header", s, sections[s].header[i])]
        \o [i \in 1..Len(sections[s].footer) |->
             Block("footer", s, sections[s].footer[i])]])

\* A mutant of WalkOrder: the footers are not visited.
WalkOrderNoFooters(d) ==
    [i \in 1..Len(d.paragraphs) |-> Block("body", 0, d.paragraphs[i])]
        \o TableBlocks(d.tables)
        \o SelectSeq(SectionBlocks(d.sections), LAMBDA b : b.region # "footer")

\* The paragraphs of a document in the order process_document visits them:
\* the body, the tables, each section's header and footer.
WalkOrder(d) ==
    [i \in 1..Len(d.paragraphs) |-> Block("body", 0, d.paragraphs[i])]
        \o TableBlocks(d.tables)
        \o SectionBlocks(d.sections)

\* os.path.join(output_dir, output_filename)
Path(dir, name) == <<dir, name>>

\* doc.save(output_path): the file at that path is replaced.
Saved(files, path, content) ==
    { f \in files : f.path # path } \cup { [path |-> path, content |-> content] }

\* tempfile.mkdtemp() gives a directory that did not exist.  Two names
\* are enough: the session refers to the files of one directory at most,
\* and a directory nothing refers to is as good as one that never was.
mkdtemp(files) ==
    IF \A i \in 1..Len(files) : files[i].path[1] # "tmp_a" THEN "tmp_a"
    ELSE "tmp_b"

\* The files that some file_info of the list refers to.  A file that
\* neither the session's list nor a running script's list refers to is
\* read by no line of the script, and the model drops it.
Referred(on_disk, files) ==
    { f \in on_disk : \E i \in 1..Len(files) : files[i].path = f.path }

\* ------------------------------------------------- the download area

\* os.path.exists(file_info["path"])
Exists(files, file_info) == \E f \in files : f.path = file_info.path

\* A mutant of download_area: processing_stage is not looked at.
download_area_any_stage(stage, files, on_disk) ==
    SelectSeq(files, LAMBDA file_info : Exists(on_disk, file_info))

\* The files listed for download by a script run that ends in this state.
download_area(stage, files, on_disk) ==
    IF stage = 1 /\ files # <<>>
    THEN SelectSeq(files, LAMBDA file_info : Exists(on_disk, file_info))
    ELSE <<>>

\* ------------------------------------------------ inputs of the model

MaxRuns == 3

\* Block texts: the two of the specification's examples, padded markers,
\* markers of names that are no keys, nested braces, no marker at all.
BlockTexts ==
    { <<"{", "{", "a", "b", "}", "}", "{", "{", "a", "}", "}">>,
      <<"H", "{", "{", "a", "}", "}", ",", "$", "{", "b", "}">>,
      <<"{", " ", "a", "\t", "}", "[", "[", "b", "]", "]">>,
      <<"{", "{", "c", "}", "}", "[", "d", "]">>,
      <<"{", "a", "b", "}", "$", "{", " ", "a", "}">>,
      <<"{", "{", "{", "a", "}", "}", "}", "{", "a">>,
      <<"a", "b", " ", "X">> }

\* Every way to cut text into n runs that are not empty.
Splits(text, n) ==
    { [i \in 1..n |-> SubSeq(text, (IF i = 1 THEN 0 ELSE c[i - 1]) + 1,
                             IF i = n THEN Len(text) ELSE c[i])] :
        c \in { d \in [1..(n - 1) -> 1..(Len(text) - 1)] :
                   \A i \in 1..(n - 2) : d[i] < d[i + 1] } }

\* The paragraphs: a text cut into runs, with an empty run before or after
\* it, and the paragraph without a run.
Paragraphs ==
    LET cut == UNION { Splits(text, n) : text \in BlockTexts, n \in 1..MaxRuns }
    IN  cut \cup { <<>> }
            \cup { <<text, <<>> >> : text \in BlockTexts }
            \cup { << <<>>, text>> : text \in BlockTexts }

DataKeys == { <<"a">>, <<"a", "b">>, <<"b">> }

\* Whether a text has a backslash in it.
HasBackslash(text) == \E i \in 1..Len(text) : text[i] = BS

\* Cell values: plain text, and text with a backslash in it.
DataValues ==
    { <<"X">>, <<"Y">>, <<BS, BS>>, <<"C", BS, "1">> }

\* The dicts of one and of two keys, in both orders.
Dicts ==
    { << <<k, v>> >> : k \in DataKeys, v \in DataValues }
    \cup { d \in { << <<k1, v1>>, <<k2, v2>> >> :
                       k1 \in DataKeys, k2 \in DataKeys,
                       v1 \in DataValues, v2 \in DataValues } :
             d[1][1] # d[2][1] }

\* The seconds at which the clock is read.
ClockReadings == {0, 7, 59}

\* The ends of filename templates: the specification's example, padded
\* markers, a marker of a name that is no key, no marker.
TemplateTails ==
    { <<"I", "n", "v", "/", "<", "{", "{", "a", "}", "}", ">">>,
      <<" ", "$", "{", " ", "b", "}", ":", "{", "c", "}", " ">>,
      <<"n", "|", "[", "[", "a", "]", "]", "*", "?", "\"">>,
      <<"n", " ">> }

\* The lengths of what a template starts with: none, and those that bring
\* the name near its longest and past it.
PadLens == {0} \cup (MaxNameLen - 30)..(MaxNameLen - 28)
               \cup (MaxNameLen - 20)..(MaxNameLen - 18)
               \cup (MaxNameLen - 9)..(MaxNameLen - 7)
               \cup {MaxNameLen, MaxNameLen + 1}

NameTemplates ==
    { [i \in 1..n |-> IF i % 7 = 0 THEN "/" ELSE "x"] \o tail :
        n \in PadLens, tail \in TemplateTails }

\* Values of a row: plain text, text the file system forbids, text with a
\* backslash that makes a bad template.
NameValues == { <<"7">>, <<"A", "/", "B", "?">>, <<"C", BS, "1">>, <<" ">> }

NameRows ==
    { << <<<<"a">>, va>>, <<<<"b">>, vb>> >> : va \in NameValues, vb \in NameValues }

MaxRows == 2

\* A paragraph of one run.
P(text) == <<text>>

\* Two template documents: one with a placeholder of b in the body (cut
\* over two runs) and placeholders of a in a table cell and the header,
\* one whose only placeholder is of b, in the header.
Templates ==
    { [paragraphs |-> << << <<"{", "{">>, <<"b", "}", "}">> >> >>,
       tables     |-> << << << << P(<<"$", "{", "a", "}">>) >> >> >> >>,
       sections   |-> << [header |-> << P(<<"[", "[", "a", "]", "]">>) >>,
                          footer |-> << P(<<"f">>) >>] >>],
      [paragraphs |-> << P(<<"t">>) >>,
       tables     |-> <<>>,
       sections   |-> << [header |-> << P(<<"{", "b", "}">>) >>,
                          footer |-> <<>>] >>] }

BadValue == <<"C", BS, "1">>

\* The rows of a batch: plain values, and a value of a with a backslash
\* in it.
BatchRows ==
    { << <<<<"a">>, <<"X">>>>, <<<<"b">>, <<"Y">>>> >>,
      << <<<<"a">>, BadValue>>, <<<<"b">>, <<"Y">>>> >> }

DataFrames == UNION { [1..m -> BatchRows] : m \in 0..MaxRows }

FilenameTemplates == { <<"n">>, <<"{", "{", "a", "}", "}">> }

\* ------------------------------------- one call on one paragraph

SubIdle ==
    /\ p_pc = "none"
    /\ p_runs0 = <<>>
    /\ p_runs = <<>>
    /\ p_repl = <<>>

NameIdle ==
    /\ n_pc = "none"
    /\ n_row = <<>>
    /\ n_template = <<>>
    /\ n_now = 0
    /\ n_name = <<>>

\* No script run: the session as lines 19-26 set it, nothing uploaded.
NoRun ==
    /\ pc = "idle"
    /\ df = <<>>
    /\ template_doc = <<>>
    /\ filename_template = <<>>
    /\ index = 0
    /\ success_count = 0
    /\ local_files = <<>>
    /\ output_filename = <<>>
    /\ doc = <<>>
    /\ pos = 0

BatchIdle ==
    /\ processing_stage = 0
    /\ output_dir = ""
    /\ generated_files = <<>>
    /\ ss_filename_template = <<>>
    /\ NoRun
    /\ disk = {}
    /\ now = 0
    /\ offered = <<>>
    /\ summary = <<>>
    /\ log = <<>>
    /\ last_begun = 0
    /\ last_failed = 0
    /\ last_ok = <<>>
    /\ last_run = "none"
    /\ aborted_at = 0
    /\ batch_total = 0
    /\ visited = <<>>
    /\ disk_before = {}
    /\ pd_ret = "none"

SubInit ==
    /\ p_pc = "call"
    /\ p_runs0 \in Paragraphs
    /\ p_runs = p_runs0
    /\ p_repl \in Dicts
    /\ NameIdle
    /\ BatchIdle

\* replace_text_in_paragraph(paragraph, replacements)
ParagraphCall ==
    /\ p_pc = "call"
    /\ LET r == replace_text_in_paragraph(p_runs, p_repl)
       IN  /\ p_runs' = r.runs
           /\ p_pc' = IF r.raised THEN "raised" ELSE "returned"
    /\ UNCHANGED <<p_runs0, p_repl, n_vars, b_vars>>

SubNext == ParagraphCall

SubSpec == SubInit /\ [][SubNext]_vars

\* ------------------------------------- one call on one row

NameInit ==
    /\ n_pc = "call"
    /\ n_row \in NameRows
    /\ n_template \in NameTemplates
    /\ n_now \in ClockReadings
    /\ n_name = <<>>
    /\ SubIdle
    /\ BatchIdle

\* generate_output_filename(row, filename_template)
NameCall ==
    /\ n_pc = "call"
    /\ LET r == generate_output_filename(n_row, n_template, n_now)
       IN  /\ n_name' = r.name
           /\ n_pc' = IF r.raised THEN "raised" ELSE "returned"
    /\ UNCHANGED <<n_row, n_template, n_now, p_vars, b_vars>>

NameNext == NameCall

NameSpec == NameInit /\ [][NameNext]_vars

\* ------------------------------------- the script and its session

Init == SubIdle /\ NameIdle /\ BatchIdle

\* The filenames of the rows of the log that process_document returned
\* True for, in row order.
OkNames(l) ==
    LET ok == SelectSeq(l, LAMBDA e : e.ok)
    IN  [i \in 1..Len(ok) |-> ok[i].name]

Names(files) == [i \in 1..Len(files) |-> files[i].name]

Failed(l) == Len(SelectSeq(l, LAMBDA e : ~e.ok))

\* The locals of a script run are gone when it ends.
EndRun ==
    /\ pc' = "idle"
    /\ now' = 0
    /\ log' = <<>>
    /\ last_begun' = Len(log)
    /\ last_failed' = Failed(log)
    /\ last_ok' = OkNames(log)
    /\ df' = <<>>
    /\ template_doc' = <<>>
    /\ filename_template' = <<>>
    /\ index' = 0
    /\ success_count' = 0
    /\ local_files' = <<>>
    /\ output_filename' = <<>>
    /\ doc' = <<>>
    /\ pos' = 0
    /\ visited' = <<>>
    /\ disk_before' = {}
    /\ pd_ret' = "none"

\* except Exception (lines 226-228), then the download area.
Abort(row) ==
    /\ processing_stage' = 0
    /\ disk' = Referred(disk, generated_files)
    /\ offered' = download_area(0, generated_files, disk')
    /\ last_run' = "aborted"
    /\ aborted_at' = row
    /\ EndRun
    /\ UNCHANGED <<generated_files, ss_filename_template, summary>>

\* A click on the generate button with both files uploaded (lines 159-193):
\* a fresh output directory, the Excel file and the template read.  Reading
\* either may raise, which ends the run in the except clause.
ClickGenerate ==
    /\ pc = "idle"
    /\ UNCHANGED <<p_vars, n_vars>>
    /\ output_dir' = mkdtemp(generated_files)
    /\ \/ /\ Abort(0)
          /\ batch_total' = 0
       \/ /\ \E rows \in DataFrames, t \in Templates, f \in FilenameTemplates :
                /\ df' = rows
                /\ template_doc' = t
                /\ filename_template' = f
                /\ batch_total' = Len(rows)
          /\ pc' = "loop"
          /\ index' = 0
          /\ success_count' = 0
          /\ local_files' = <<>>
          /\ offered' = <<>>
          /\ summary' = <<>>
          /\ aborted_at' = 0
          /\ last_begun' = 0
          /\ last_failed' = 0
          /\ last_ok' = <<>>
          /\ last_run' = "running"
          /\ UNCHANGED <<disk, now, log>>
          /\ UNCHANGED <<processing_stage, generated_files, ss_filename_template,
                         output_filename, doc, pos, visited, disk_before, pd_ret>>

\* One more row (lines 195-209): the filename is synthesized, which may
\* raise and end the run in the except clause; else process_document
\* opens the template.  Since the row before, the clock has moved on to
\* the next second or it has not.
NextRow ==
    /\ pc = "loop"
    /\ UNCHANGED <<p_vars, n_vars>>
    /\ index < Len(df)
    /\ \E t \in {now, now + 1} :
          /\ index = 0 => t = now
          /\ LET r == generate_output_filename(df[index + 1], filename_template, t)
             IN  IF r.raised
                 THEN /\ Abort(index + 1)
                      /\ UNCHANGED <<output_dir, batch_total>>
                 ELSE /\ now' = t
                      /\ index' = index + 1
                      /\ output_filename' = r.name
                      /\ doc' = WalkOrder(template_doc)
                      /\ pos' = 1
                      /\ visited' = <<>>
                      /\ disk_before' = disk
                      /\ pd_ret' = "none"
                      /\ pc' = "walk"
                      /\ UNCHANGED disk
                      /\ UNCHANGED <<session, df, template_doc, filename_template,
                                     success_count, local_files, offered,
                                     summary, log, last_begun, last_failed,
                                     last_ok, last_run, aborted_at, batch_total>>

\* process_document returns False: the row is not recorded.
ReturnFalse(ret) ==
    /\ pd_ret' = ret
    /\ log' = Append(log, [index |-> index, name |-> output_filename, ok |-> FALSE])
    /\ pc' = "loop"
    /\ UNCHANGED <<session, df, template_doc, filename_template, index,
                   success_count, local_files, output_filename, disk, now,
                   offered, summary, last_begun, last_failed, last_ok, last_run,
                   aborted_at, batch_total, disk_before>>

\* process_document's next paragraph (lines 96-113): a call that raises
\* ends process_document in its except clause.
VisitBlock ==
    /\ pc = "walk"
    /\ UNCHANGED <<p_vars, n_vars>>
    /\ pos <= Len(doc)
    /\ LET r == replace_text_in_paragraph(doc[pos].runs, df[index])
       IN  IF r.raised
           THEN /\ ReturnFalse("false_block")
                /\ UNCHANGED <<doc, pos, visited>>
           ELSE /\ doc' = [doc EXCEPT ![pos].runs = r.runs]
                /\ pos' = pos + 1
                /\ visited' = Append(visited, [region |-> doc[pos].region,
                                               sec |-> doc[pos].sec])
                /\ UNCHANGED <<session, pc, df, template_doc, filename_template,
                               index, success_count, local_files, output_filename,
                               disk, now, offered, summary, log, last_begun,
                               last_failed, last_ok, last_run, aborted_at,
                               batch_total, disk_before, pd_ret>>

\* doc.save(output_path) after the last paragraph (lines 115-116, 209-214):
\* the file is written and the row recorded, or the save raises.
SaveDoc ==
    /\ pc = "walk"
    /\ UNCHANGED <<p_vars, n_vars>>
    /\ pos > Len(doc)
    /\ \/ /\ disk' = Saved(disk, Path(output_dir, output_filename), doc)
          /\ pd_ret' = "true"
          /\ success_count' = success_count + 1
          /\ local_files' = Append(local_files,
                 [name |-> output_filename,
                  path |-> Path(output_dir, output_filename)])
          /\ log' = Append(log, [index |-> index, name |-> output_filename,
                                 ok |-> TRUE])
          /\ pc' = "loop"
          /\ UNCHANGED <<session, df, template_doc, filename_template, index,
                         output_filename, doc, pos, now, offered, summary,
                         last_begun, last_failed, last_ok, last_run, aborted_at,
                         batch_total, visited, disk_before>>
       \/ /\ ReturnFalse("false")
          /\ UNCHANGED <<doc, pos, visited>>

\* After the last row (lines 216-224): the results go to the session, the
\* messages are shown, then the download area.
Publish ==
    /\ pc = "loop"
    /\ UNCHANGED <<p_vars, n_vars>>
    /\ index = Len(df)
    /\ generated_files' = local_files
    /\ processing_stage' = 1
    /\ ss_filename_template' = filename_template
    /\ summary' = <<success_count, Len(df), Len(df) - success_count>>
    /\ disk' = Referred(disk, local_files)
    /\ offered' = download_area(1, local_files, disk')
    /\ last_run' = "completed"
    /\ EndRun
    /\ UNCHANGED <<output_dir, aborted_at, batch_total>>

\* A script run without a click on either button: the download area.
View ==
    /\ pc = "idle"
    /\ UNCHANGED <<p_vars, n_vars>>
    /\ offered' = download_area(processing_stage, generated_files, disk)
    /\ UNCHANGED <<session, locals, pc, disk, now, summary, history>>

\* A click on the reset button (lines 264-277): every key of the session
\* is deleted and set again, and the script is run once more.
Reset ==
    /\ pc = "idle"
    /\ UNCHANGED <<p_vars, n_vars>>
    /\ processing_stage' = 0
    /\ output_dir' = ""
    /\ generated_files' = <<>>
    /\ ss_filename_template' = <<>>
    /\ disk' = Referred(disk, <<>>)
    /\ offered' = download_area(0, <<>>, disk')
    /\ last_run' = "reset"
    /\ UNCHANGED <<locals, pc, now, summary, log, last_begun, last_failed,
                   last_ok, aborted_at, batch_total, visited, disk_before, pd_ret>>

Next ==
    \/ ClickGenerate
    \/ NextRow
    \/ VisitBlock
    \/ SaveDoc
    \/ Publish
    \/ View
    \/ Reset

Spec == Init /\ [][Next]_vars

\* ------------------------------------- what the claims speak of

\* text[i..e-1] is a placeholder of key in the syntax pat: the opening
\* marker, whitespace, the key, whitespace, the closing marker.
OccursAt(text, i, e, pat, key) ==
    LET a == i + Len(pat.open)
        d == e - Len(pat.close)
    IN  /\ 1 <= i /\ e <= Len(text) + 1 /\ a + Len(key) <= d
        /\ SubSeq(text, i, a - 1) = pat.open
        /\ SubSeq(text, d, e - 1) = pat.close
        /\ \E b \in a..(d - Len(key)) :
              /\ SubSeq(text, b, b + Len(key) - 1) = key
              /\ \A j \in (a..(b - 1)) \cup ((b + Len(key))..(d - 1)) :
                    IsSpace(text[j])

Syntaxes == { PLACEHOLDER_PATTERNS[p] : p \in 1..Len(PLACEHOLDER_PATTERNS) }

\* key occurs in text wrapped in one of the four syntaxes.
Occurs(text, key) ==
    \E pat \in Syntaxes, i \in 1..Len(text) :
        /\ HasAt(text, i, pat.open)
        /\ \E e \in (i + 1)..(Len(text) + 1) : OccursAt(text, i, e, pat, key)

KeySet(d) == { d[i][1] : i \in 1..Len(d) }

\* Some key of the dict occurs in the text.
SomeKeyOccurs(text, d) == \E key \in KeySet(d) : Occurs(text, key)

\* Where the placeholders of the dict's keys that start at text[i] end.
EndsAt(text, i, d) ==
    IF \A pat \in Syntaxes : ~HasAt(text, i, pat.open)
    THEN {}
    ELSE { e \in (i + 1)..(Len(text) + 1) :
              \E pat \in Syntaxes, key \in KeySet(d) :
                  OccursAt(text, i, e, pat, key) }

RECURSIVE Substituted(_, _, _)
\* text from text[i] on, with every placeholder of a key of the dict
\* replaced by the key's value as it stands: at each place the longest
\* placeholder that starts there.
Substituted(text, i, d) ==
    IF i > Len(text) THEN <<>>
    ELSE LET ends == EndsAt(text, i, d)
         IN  IF ends = {} THEN <<text[i]>> \o Substituted(text, i + 1, d)
             ELSE LET e   == Max(ends)
                      key == CHOOSE k \in KeySet(d) :
                                 \E pat \in Syntaxes : OccursAt(text, i, e, pat, k)
                  IN  Get(d, key) \o Substituted(text, e, d)

PlainValues(d) == \A i \in 1..Len(d) : ~HasBackslash(d[i][2])

IsPrefix(s, t) == Len(s) < Len(t) /\ SubSeq(t, 1, Len(s)) = s

Reversed(d) == [i \in 1..Len(d) |-> d[Len(d) + 1 - i]]

\* C3: when no key of the dict occurs in the paragraph's text wrapped in
\* one of the four syntaxes, the call returns and leaves every run as it
\* was: the same number of runs, the same text in each.
C3_NoOpLeavesRuns ==
    (p_pc \in {"returned", "raised"} /\ ~SomeKeyOccurs(Concat(p_runs0), p_repl))
        => (p_pc = "returned" /\ p_runs = p_runs0)

\* C3's case: a paragraph of several runs whose text holds the markers of
\* names that are no keys, after the call.
C3_Witness ==
    /\ p_pc = "returned"
    /\ Len(p_runs0) >= 2
    /\ ~SomeKeyOccurs(Concat(p_runs0), p_repl)
    /\ Occurs(Concat(p_runs0), <<"c">>)

\* C4 as stated: when some key occurs in the paragraph, the text after the
\* call is the original text with every placeholder of a key replaced by
\* the key's value itself, whatever string the value is.
C4_ValueItself ==
    (p_pc \in {"returned", "raised"} /\ SomeKeyOccurs(Concat(p_runs0), p_repl))
        => (p_pc = "returned"
            /\ Concat(p_runs) = Substituted(Concat(p_runs0), 1, p_repl))

\* C5: a call that rewrites the paragraph (some key occurs in it) leaves as
\* many runs as there were, the substituted text in the first one, and
\* every other run empty.
C5_RunStructure ==
    (p_pc = "returned" /\ SomeKeyOccurs(Concat(p_runs0), p_repl))
        => /\ Len(p_runs) = Len(p_runs0)
           /\ \A i \in 2..Len(p_runs) : p_runs[i] = <<>>
           /\ p_runs[1] = Concat(p_runs)
           /\ PlainValues(p_repl)
                 => p_runs[1] = Substituted(Concat(p_runs0), 1, p_repl)

\* C5's case: a paragraph of three runs, rewritten.
C5_Witness ==
    /\ p_pc = "returned"
    /\ Len(p_runs0) = 3
    /\ SomeKeyOccurs(Concat(p_runs0), p_repl)
    /\ p_runs # p_runs0

\* C9: when one key of the dict is a prefix of the other and the text holds
\* a placeholder of each, the call gives the same result for both orders
\* of the keys; "{{ab}}{{a}}" with a: "X", ab: "Y" gives "YX".
C9_PrefixOrder ==
    (/\ p_pc \in {"returned", "raised"}
     /\ Len(p_repl) = 2
     /\ IsPrefix(p_repl[1][1], p_repl[2][1]) \/ IsPrefix(p_repl[2][1], p_repl[1][1])
     /\ \A key \in KeySet(p_repl) : Occurs(Concat(p_runs0), key))
        => /\ replace_text_in_paragraph(p_runs0, Reversed(p_repl))
                = [raised |-> p_pc = "raised", runs |-> p_runs]
           /\ (/\ Concat(p_runs0)
                    = <<"{", "{", "a", "b", "}", "}", "{", "{", "a", "}", "}">>
               /\ Get(p_repl, <<"a">>) = <<"X">>
               /\ Get(p_repl, <<"a", "b">>) = <<"Y">>)
                  => Concat(p_runs) = <<"Y", "X">>

\* C9's case: the example, with the shorter key first in the dict.
C9_Witness ==
    /\ p_pc = "returned"
    /\ p_repl = << <<<<"a">>, <<"X">>>>, <<<<"a", "b">>, <<"Y">>>> >>
    /\ Concat(p_runs0) = <<"{", "{", "a", "b", "}", "}", "{", "{", "a", "}", "}">>
    /\ Concat(p_runs) = <<"Y", "X">>

\* C7: a filename that generate_output_filename returns holds none of the
\* characters \ / * ? : " < > |, ends with .docx, and is at most 100
\* characters long before the extension.
C7_Sanitized ==
    n_pc = "returned"
        => /\ \A i \in 1..Len(n_name) : n_name[i] \notin IllegalChars
           /\ Len(n_name) >= Len(Extension)
           /\ SubSeq(n_name, Len(n_name) - Len(Extension) + 1, Len(n_name)) = Extension
           /\ Len(n_name) - Len(Extension) <= MaxNameLen

\* C7's case: a template with forbidden characters and longer than the
\* limit, a value with forbidden characters, and the name cut to the limit.
C7_Witness ==
    /\ n_pc = "returned"
    /\ Len(n_template) > MaxNameLen
    /\ \E i \in 1..Len(n_template) : n_template[i] \in IllegalChars
    /\ Get(n_row, <<"a">>) = <<"A", "/", "B", "?">>
    /\ Occurs(n_template, <<"a">>)
    /\ Len(n_name) = MaxNameLen + Len(Extension)

\* A batch run with rows has ended: the loop was entered.
BatchEnded ==
    /\ pc = "idle"
    /\ last_run = "completed" \/ (last_run = "aborted" /\ aborted_at > 0)

\* C1 as stated: when a batch of M rows has ended, with process_document
\* having failed for k rows, every row was attempted in row order, the
\* result list holds the M-k rows that succeeded, and the messages report
\* M-k successes, k failures and the total M.
C1_BatchAccounting ==
    BatchEnded
        => /\ last_begun = batch_total
           /\ Names(generated_files) = last_ok
           /\ Len(last_ok) = batch_total - last_failed
           /\ summary = <<batch_total - last_failed, batch_total, last_failed>>

\* C2 as stated: no error of a row's steps, the filename synthesis among
\* them, ends the batch: it is never aborted in a row.
C2_RowErrorsStayInRow ==
    ~(last_run = "aborted" /\ aborted_at > 0)

\* C6 as stated: the filenames synthesized for two different rows of one
\* batch are distinct.
C6_DistinctNames ==
    \A i, j \in 1..Len(log) : i # j => log[i].name # log[j].name

\* The place of a block in the order body, tables, then each section's
\* header and footer.
Rank(v) ==
    CASE v.region = "body"   -> 0
      [] v.region = "table"  -> 1
      [] v.region = "header" -> 2 * v.sec
      [] v.region = "footer" -> 2 * v.sec + 1

\* The paragraphs of the cells of a document's tables.
TableParagraphs(d) ==
    UNION { UNION { UNION { { <<t, r, c, q>> : q \in 1..Len(d.tables[t][r][c]) } :
                            c \in 1..Len(d.tables[t][r]) } :
                    r \in 1..Len(d.tables[t]) } :
            t \in 1..Len(d.tables) }

Count(region, sec) ==
    Len(SelectSeq(visited, LAMBDA v : v.region = region /\ v.sec = sec))

\* Every paragraph of the template has been visited.
AllVisited ==
    /\ Count("body", 0) = Len(template_doc.paragraphs)
    /\ Count("table", 0) = Cardinality(TableParagraphs(template_doc))
    /\ \A sec \in 1..Len(template_doc.sections) :
          /\ Count("header", sec) = Len(template_doc.sections[sec].header)
          /\ Count("footer", sec) = Len(template_doc.sections[sec].footer)

\* C8: process_document visits the body, then the tables, then each
\* section's header and footer, and saves only after all of them; when a
\* block raises nothing is written, the blocks before it stay rewritten
\* and the call returns False.
C8_SaveIsCommit ==
    /\ \A i, j \in 1..Len(visited) : i < j => Rank(visited[i]) <= Rank(visited[j])
    /\ (pc = "walk" /\ pd_ret = "none") => disk = disk_before
    /\ pd_ret = "true"
          => /\ AllVisited
             /\ [path |-> Path(output_dir, output_filename), content |-> doc] \in disk
    /\ pd_ret = "false_block"
          => /\ disk = disk_before
             /\ ~AllVisited
             /\ log[Len(log)] = [index |-> index, name |-> output_filename, ok |-> FALSE]
             /\ Names(local_files) = OkNames(log)
             /\ \A j \in 1..(pos - 1) :
                   doc[j].runs = replace_text_in_paragraph(
                                     WalkOrder(template_doc)[j].runs, df[index]).runs

\* C8's case: the second block raised after the first was rewritten.
C8_Witness ==
    /\ pd_ret = "false_block"
    /\ pos = 2
    /\ doc[1].runs # WalkOrder(template_doc)[1].runs
    /\ disk = disk_before

\* C10: between script runs, files are offered for download only after a
\* batch run that ran to its end, and they are that run's successes; after
\* a run that aborted processing_stage is 0 and nothing is offered; after
\* a reset processing_stage is 0 and generated_files is empty.
C10_SessionState ==
    pc = "idle"
        => /\ (processing_stage = 1 /\ generated_files # <<>>)
                 => /\ last_run = "completed"
                    /\ Names(generated_files) = last_ok
                    /\ offered = generated_files
           /\ offered # <<>>
                 => (processing_stage = 1 /\ offered = generated_files)
           /\ last_run = "aborted"
                 => (processing_stage = 0 /\ offered = <<>>)
           /\ last_run = "reset"
                 => (processing_stage = 0 /\ generated_files = <<>>
                     /\ offered = <<>>)

\* C10's case: a batch run aborted after an earlier one had published
\* files: the list is still in the session and nothing is offered.
C10_Witness ==
    /\ pc = "idle"
    /\ last_run = "aborted"
    /\ generated_files # <<>>
    /\ \A i \in 1..Len(generated_files) : Exists(disk, generated_files[i])
    /\ offered = <<>>

====
